---- MODULE Spec2Model ----
(***************************************************************************)
(* Model of verify.py, the Nexus project structure verifier.               *)
(*                                                                         *)
(* A path is the sequence of its components ("backend/go.mod" is           *)
(* <<"backend", "go.mod">>), a manifest entry is the pair <<path, name>>   *)
(* of the source, and the output is the sequence of the lines printed.     *)
(***************************************************************************)
EXTENDS Integers, Sequences, FiniteSets, TLC

VARIABLES
    manifest,       \* which manifest the text of main() declares
    fs,             \* filesystem snapshot under the script's directory: path -> kind
    cwd,            \* the process working directory
    pc,             \* position of main()
    ci,             \* number of categories the outer for loop has entered
    fi,             \* number of entries of the current category checked
    di,             \* number of directory entries checked
    all_passed,
    total_files,
    checked_files,
    out,            \* the lines printed by the current run
    calls,          \* the existence predicates called by the current run, in order
    exit_code,      \* the exit status main() returned, -1 while it has returned nothing
    runs            \* the <<output, exit code>> of every finished run

vars == <<manifest, fs, cwd, pc, ci, fi, di, all_passed, total_files,
          checked_files, out, calls, exit_code, runs>>

-----------------------------------------------------------------------------
(* Bounds of the model *)

\* a snapshot differs from the complete project layout at up to MaxFaults declared paths
MaxFaults == 1

\* the script is run up to MaxRuns times against the same snapshot
MaxRuns == 2

-----------------------------------------------------------------------------
(* The manifest *)

Checks ==
    << <<"Documentation", <<
            << <<"README.md">>, "README" >>,
            << <<"PROJECT_SPEC.md">>, "Project Specification" >>,
            << <<"SETUP.md">>, "Setup Guide" >>,
            << <<"STATUS.md">>, "Implementation Status" >>,
            << <<"SUMMARY.md">>, "Project Summary" >> >> >>,
       <<"Backend", <<
            << <<"backend", "go.mod">>, "Go modules" >>,
            << <<"backend", ".env.example">>, ".env example" >>,
            << <<"backend", "cmd", "api", "main.go">>, "API Server" >>,
            << <<"backend", "cmd", "ws", "main.go">>, "WebSocket Server" >>,
            << <<"backend", "cmd", "media", "main.go">>, "Media Server" >>,
            << <<"backend", "internal", "models", "types.go">>, "Data models" >>,
            << <<"backend", "internal", "database", "cassandra.go">>, "Cassandra client" >>,
            << <<"backend", "internal", "services", "nats_services.go">>, "NATS services" >>,
            << <<"backend", "internal", "handlers", "auth.go">>, "Auth handler" >>,
            << <<"backend", "internal", "cache", "memory.go">>, "Memory cache" >> >> >>,
       <<"Frontend", <<
            << <<"frontend", "app.json">>, "Expo config" >>,
            << <<"frontend", "package.json">>, "Package config" >>,
            << <<"frontend", "tsconfig.json">>, "TypeScript config" >>,
            << <<"frontend", "app", "store", "appState.ts">>, "State management" >>,
            << <<"frontend", "app", "services", "api.ts">>, "API client" >>,
            << <<"frontend", "app", "hooks", "useAppState.ts">>, "Custom hooks" >>,
            << <<"frontend", "app", "screens", "LoginScreen.tsx">>, "Login screen" >>,
            << <<"frontend", "app", "screens", "ChatScreen.tsx">>, "Chat screen" >>,
            << <<"frontend", "app", "screens", "TasksScreen.tsx">>, "Tasks screen" >>,
            << <<"frontend", "app", "components", "MessageList.tsx">>, "Message list" >>,
            << <<"frontend", "app", "components", "MessageInput.tsx">>, "Message input" >> >> >>,
       <<"Infrastructure", <<
            << <<"docker-compose.yml">>, "Docker Compose" >>,
            << <<"infrastructure", "cassandra", "init.cql">>, "Cassandra schema" >>,
            << <<"infrastructure", "turn", "turnserver.conf">>, "TURN config" >> >> >>,
       <<"Automation", <<
            << <<"Makefile">>, "Makefile" >>,
            << <<"setup.sh">>, "Setup script" >> >> >> >>

Dirs ==
    << << <<"backend", "cmd">>, "Backend commands" >>,
       << <<"backend", "internal">>, "Backend internal" >>,
       << <<"frontend", "app", "screens">>, "Frontend screens" >>,
       << <<"frontend", "app", "components">>, "Frontend components" >>,
       << <<"infrastructure">>, "Infrastructure" >> >>

\* manifests of the shape main() iterates over: the one verify.py declares, one
\* that declares nothing, one of three files, and one with an empty category and
\* a directory above a declared file
Manifests ==
    [nexus |-> [checks |-> Checks, dirs |-> Dirs],
     empty |-> [checks |-> <<>>, dirs |-> <<>>],
     three |-> [checks |-> << <<"Files", <<
                                << <<"a.txt">>, "A" >>,
                                << <<"b.txt">>, "B" >>,
                                << <<"c.txt">>, "C" >> >> >> >>,
                dirs |-> <<>>],
     mixed |-> [checks |-> << <<"Nothing", <<>> >>,
                              <<"Source", <<
                                << <<"src", "main.go">>, "Main" >> >> >> >>,
                dirs |-> << << <<"src">>, "Sources" >>,
                            << <<"docs">>, "Documents" >> >>]]

checks == Manifests[manifest].checks
dirs == Manifests[manifest].dirs

\* the entries of all categories, flattened in iteration order of checks.items()
RECURSIVE FileEntries(_)
FileEntries(cs) ==
    IF cs = <<>> THEN <<>> ELSE Head(cs)[2] \o FileEntries(Tail(cs))

Range(s) == {s[i] : i \in 1..Len(s)}

FilePaths(cs) == {e[1] : e \in Range(FileEntries(cs))}
DirPaths(ds) == {e[1] : e \in Range(ds)}
DeclaredPaths(cs, ds) == FilePaths(cs) \cup DirPaths(ds)

-----------------------------------------------------------------------------
(* The filesystem the predicates look at *)

\* what a path resolves to: nothing, a regular file, a directory, another kind of
\* node (fifo, socket, device), or a path stat fails on (symlink loop, no permission)
Kinds == {"absent", "file", "dir", "other", "unstatable"}

\* where the process may be started from: the script's directory or any other one
LaunchDirs == {"root", "elsewhere"}

IsProperPrefix(d, p) == Len(d) < Len(p) /\ SubSeq(p, 1, Len(d)) = d

\* the complete project layout: every declared path present with the declared kind
Complete(cs, ds) ==
    [p \in DeclaredPaths(cs, ds) |-> IF p \in DirPaths(ds) THEN "dir" ELSE "file"]

\* a path below a declared path that is no directory cannot exist; below a path
\* stat fails on, stat fails too
Consistent(f) ==
    [p \in DOMAIN f |->
        LET broken == {d \in DOMAIN f : IsProperPrefix(d, p) /\ f[d] # "dir"}
        IN  IF broken = {} THEN f[p]
            ELSE LET top == CHOOSE d \in broken : \A e \in broken : Len(d) <= Len(e)
                 IN  IF f[top] = "unstatable" THEN "unstatable" ELSE "absent"]

\* f with up to k more of its paths turned into kind
RECURSIVE Damaged(_, _, _)
Damaged(f, kind, k) ==
    IF k = 0 THEN {f}
    ELSE LET prev == Damaged(f, kind, k - 1)
         IN  prev \cup {[g EXCEPT ![p] = kind] : g \in prev, p \in DOMAIN f}

\* the snapshots of the model: the complete layout with up to MaxFaults declared
\* paths damaged in one way, and the directory that holds none of the paths
Snapshots(cs, ds) ==
    {Consistent(g) : g \in UNION {Damaged(Complete(cs, ds), kind, MaxFaults) : kind \in Kinds}}
        \cup {[p \in DeclaredPaths(cs, ds) |-> "absent"]}

-----------------------------------------------------------------------------
(* os.stat and the predicates of os.path *)

\* a relative path is resolved against the working directory
os_stat(dir, path) ==
    LET kind == IF dir = "root" THEN fs[path] ELSE "absent"
    IN  CASE kind = "absent"     -> [errno |-> "ENOENT", mode |-> "none"]
          [] kind = "unstatable" -> [errno |-> "ELOOP", mode |-> "none"]
          [] kind = "file"       -> [errno |-> "OK", mode |-> "S_IFREG"]
          [] kind = "dir"        -> [errno |-> "OK", mode |-> "S_IFDIR"]
          [] OTHER               -> [errno |-> "OK", mode |-> "S_IFIFO"]

\* bug: os.path.exists in place of os.path.isfile
isfile_exists(dir, path) ==
    [exc |-> "None", val |-> os_stat(dir, path).errno = "OK"]

\* bug: a predicate that swallows only ENOENT and lets any other OSError out
isfile_raises(dir, path) ==
    LET st == os_stat(dir, path)
    IN  IF st.errno = "ENOENT" THEN [exc |-> "None", val |-> FALSE]
        ELSE IF st.errno # "OK" THEN [exc |-> "OSError", val |-> FALSE]
        ELSE [exc |-> "None", val |-> st.mode = "S_IFREG"]

\* bug: os.path.exists in place of os.path.isdir
isdir_exists(dir, path) ==
    [exc |-> "None", val |-> os_stat(dir, path).errno = "OK"]

\* os.path.isfile and os.path.isdir answer False when stat raises OSError
isfile(dir, path) ==
    LET st == os_stat(dir, path)
    IN  IF st.errno # "OK" THEN [exc |-> "None", val |-> FALSE]
        ELSE [exc |-> "None", val |-> st.mode = "S_IFREG"]

isdir(dir, path) ==
    LET st == os_stat(dir, path)
    IN  IF st.errno # "OK" THEN [exc |-> "None", val |-> FALSE]
        ELSE [exc |-> "None", val |-> st.mode = "S_IFDIR"]

-----------------------------------------------------------------------------
(* Output lines *)

SepWidth == 50

Blank == <<"">>
Title == <<"title", "Nexus Project Structure Verification">>
CategoryLine(category) == <<"category", category, ":">>
DirectoriesLine == <<"directories", "Directories", ":">>
Separator(ch) == <<"separator", ch, SepWidth>>
\* bug: the two counters printed in the wrong order
SummaryLine_Swapped(passed, total) == <<"summary", total, "/", passed, "items verified">>
SummaryLine(passed, total) == <<"summary", passed, "/", total, "items verified">>
SuccessBanner ==
    << <<"banner", "[ok]", "All files and directories present!">>, Blank,
       <<"next", "Next steps:">>,
       <<"next", "1. make setup">>,
       <<"next", "2. make build">>,
       <<"next", "3. make run">>,
       <<"next", "4. make docker">>,
       Blank, <<"next", "Or start coding directly!">>, Blank >>
FailureBanner ==
    << <<"banner", "[x]", "Some items are missing!">>, Blank,
       <<"hint", "Please ensure all required files exist.">>, Blank >>

-----------------------------------------------------------------------------
(* check_file and check_dir: the value returned and the line printed.  An        *)
(* exception of the predicate is not caught, so it leaves the function with      *)
(* nothing printed.                                                              *)

check_file(dir, path, name) ==
    LET r == isfile(dir, path)
    IN  IF r.exc # "None" THEN [exc |-> r.exc, val |-> FALSE, printed |-> <<>>]
        ELSE IF r.val
             THEN [exc |-> "None", val |-> TRUE, printed |-> << <<"[ok]", name>> >>]
             ELSE [exc |-> "None", val |-> FALSE,
                   printed |-> << <<"[x]", name, "(NOT FOUND)">> >>]

check_dir(dir, path, name) ==
    LET r == isdir(dir, path)
    IN  IF r.exc # "None" THEN [exc |-> r.exc, val |-> FALSE, printed |-> <<>>]
        ELSE IF r.val
             THEN [exc |-> "None", val |-> TRUE, printed |-> << <<"[ok]", name, "/">> >>]
             ELSE [exc |-> "None", val |-> FALSE,
                   printed |-> << <<"[x]", name, "/", "(NOT FOUND)">> >>]

-----------------------------------------------------------------------------
(* main() *)

\* the state of a process that has not entered main() yet
Fresh ==
    /\ pc = "start"
    /\ ci = 0 /\ fi = 0 /\ di = 0
    /\ all_passed = TRUE /\ total_files = 0 /\ checked_files = 0
    /\ out = <<>> /\ calls = <<>>
    /\ exit_code = -1

Init ==
    /\ manifest = "nexus"
    /\ fs \in Snapshots(checks, dirs)
    /\ cwd \in LaunchDirs
    /\ runs = <<>>
    /\ Fresh

\* bug: main() without os.chdir(root)
Start_NoChdir ==
    /\ pc = "start"
    /\ out' = out \o <<Blank, Title, Blank>>
    /\ all_passed' = TRUE
    /\ total_files' = 0
    /\ checked_files' = 0
    /\ pc' = "categories"
    /\ UNCHANGED <<manifest, fs, cwd, ci, fi, di, calls, exit_code, runs>>

\* the title, os.chdir(Path(__file__).parent) and the three locals
Start ==
    /\ pc = "start"
    /\ out' = out \o <<Blank, Title, Blank>>
    /\ cwd' = "root"
    /\ all_passed' = TRUE
    /\ total_files' = 0
    /\ checked_files' = 0
    /\ pc' = "categories"
    /\ UNCHANGED <<manifest, fs, ci, fi, di, calls, exit_code, runs>>

\* for category, files in checks.items(): the header of the next category
NextCategory ==
    /\ pc = "categories"
    /\ ci < Len(checks)
    /\ ci' = ci + 1
    /\ fi' = 0
    /\ out' = out \o <<Blank, CategoryLine(checks[ci + 1][1]), Separator("-")>>
    /\ pc' = IF Len(checks[ci + 1][2]) = 0 THEN "categories" ELSE "files"
    /\ UNCHANGED <<manifest, fs, cwd, di, all_passed, total_files,
                   checked_files, calls, exit_code, runs>>

\* bug: break after the first missing file of a category
CheckFile_Break ==
    /\ pc = "files"
    /\ LET files == checks[ci][2]
           file_path == files[fi + 1][1]
           display_name == files[fi + 1][2]
           r == check_file(cwd, file_path, display_name)
       IN  /\ total_files' = total_files + 1
           /\ calls' = Append(calls, <<"isfile", file_path>>)
           /\ out' = out \o r.printed
           /\ IF r.exc # "None"
              THEN /\ pc' = "raised"
                   /\ exit_code' = 1
                   /\ UNCHANGED <<fi, checked_files, all_passed>>
              ELSE /\ checked_files' = IF r.val THEN checked_files + 1 ELSE checked_files
                   /\ all_passed' = IF r.val THEN all_passed ELSE FALSE
                   /\ fi' = fi + 1
                   /\ pc' = IF fi + 1 = Len(files) \/ ~r.val THEN "categories" ELSE "files"
                   /\ UNCHANGED exit_code
    /\ UNCHANGED <<manifest, fs, cwd, ci, di, runs>>

\* bug: all_passed = check_file(...), the result of the last check alone
CheckFile_LastResult ==
    /\ pc = "files"
    /\ LET files == checks[ci][2]
           file_path == files[fi + 1][1]
           display_name == files[fi + 1][2]
           r == check_file(cwd, file_path, display_name)
       IN  /\ total_files' = total_files + 1
           /\ calls' = Append(calls, <<"isfile", file_path>>)
           /\ out' = out \o r.printed
           /\ IF r.exc # "None"
              THEN /\ pc' = "raised"
                   /\ exit_code' = 1
                   /\ UNCHANGED <<fi, checked_files, all_passed>>
              ELSE /\ checked_files' = IF r.val THEN checked_files + 1 ELSE checked_files
                   /\ all_passed' = r.val
                   /\ fi' = fi + 1
                   /\ pc' = IF fi + 1 = Len(files) THEN "categories" ELSE "files"
                   /\ UNCHANGED exit_code
    /\ UNCHANGED <<manifest, fs, cwd, ci, di, runs>>

\* one iteration of: for file_path, display_name in files
CheckFile ==
    /\ pc = "files"
    /\ LET files == checks[ci][2]
           file_path == files[fi + 1][1]
           display_name == files[fi + 1][2]
           r == check_file(cwd, file_path, display_name)
       IN  /\ total_files' = total_files + 1
           /\ calls' = Append(calls, <<"isfile", file_path>>)
           /\ out' = out \o r.printed
           /\ IF r.exc # "None"
              THEN /\ pc' = "raised"
                   /\ exit_code' = 1
                   /\ UNCHANGED <<fi, checked_files, all_passed>>
              ELSE /\ checked_files' = IF r.val THEN checked_files + 1 ELSE checked_files
                   /\ all_passed' = IF r.val THEN all_passed ELSE FALSE
                   /\ fi' = fi + 1
                   /\ pc' = IF fi + 1 = Len(files) THEN "categories" ELSE "files"
                   /\ UNCHANGED exit_code
    /\ UNCHANGED <<manifest, fs, cwd, ci, di, runs>>

\* the header of the directory section, after the last category
DirsHeader ==
    /\ pc = "categories"
    /\ ci = Len(checks)
    /\ di' = 0
    /\ out' = out \o <<Blank, DirectoriesLine, Separator("-")>>
    /\ pc' = IF Len(dirs) = 0 THEN "summary" ELSE "dirs"
    /\ UNCHANGED <<manifest, fs, cwd, ci, fi, all_passed, total_files,
                   checked_files, calls, exit_code, runs>>

\* bug: the directory loop without total_files += 1
CheckDir_NoCount ==
    /\ pc = "dirs"
    /\ LET dir_path == dirs[di + 1][1]
           display_name == dirs[di + 1][2]
           r == check_dir(cwd, dir_path, display_name)
       IN  /\ calls' = Append(calls, <<"isdir", dir_path>>)
           /\ out' = out \o r.printed
           /\ IF r.exc # "None"
              THEN /\ pc' = "raised"
                   /\ exit_code' = 1
                   /\ UNCHANGED <<di, checked_files, all_passed>>
              ELSE /\ checked_files' = IF r.val THEN checked_files + 1 ELSE checked_files
                   /\ all_passed' = IF r.val THEN all_passed ELSE FALSE
                   /\ di' = di + 1
                   /\ pc' = IF di + 1 = Len(dirs) THEN "summary" ELSE "dirs"
                   /\ UNCHANGED exit_code
    /\ UNCHANGED <<manifest, fs, cwd, ci, fi, total_files, runs>>

\* bug: a missing directory is created (os.makedirs) after it is reported
CheckDir_Creates ==
    /\ pc = "dirs"
    /\ LET dir_path == dirs[di + 1][1]
           display_name == dirs[di + 1][2]
           r == check_dir(cwd, dir_path, display_name)
       IN  /\ total_files' = total_files + 1
           /\ calls' = Append(calls, <<"isdir", dir_path>>)
           /\ out' = out \o r.printed
           /\ fs' = IF fs[dir_path] = "absent" THEN [fs EXCEPT ![dir_path] = "dir"] ELSE fs
           /\ IF r.exc # "None"
              THEN /\ pc' = "raised"
                   /\ exit_code' = 1
                   /\ UNCHANGED <<di, checked_files, all_passed>>
              ELSE /\ checked_files' = IF r.val THEN checked_files + 1 ELSE checked_files
                   /\ all_passed' = IF r.val THEN all_passed ELSE FALSE
                   /\ di' = di + 1
                   /\ pc' = IF di + 1 = Len(dirs) THEN "summary" ELSE "dirs"
                   /\ UNCHANGED exit_code
    /\ UNCHANGED <<manifest, cwd, ci, fi, runs>>

\* one iteration of: for dir_path, display_name in dirs
CheckDir ==
    /\ pc = "dirs"
    /\ LET dir_path == dirs[di + 1][1]
           display_name == dirs[di + 1][2]
           r == check_dir(cwd, dir_path, display_name)
       IN  /\ total_files' = total_files + 1
           /\ calls' = Append(calls, <<"isdir", dir_path>>)
           /\ out' = out \o r.printed
           /\ IF r.exc # "None"
              THEN /\ pc' = "raised"
                   /\ exit_code' = 1
                   /\ UNCHANGED <<di, checked_files, all_passed>>
              ELSE /\ checked_files' = IF r.val THEN checked_files + 1 ELSE checked_files
                   /\ all_passed' = IF r.val THEN all_passed ELSE FALSE
                   /\ di' = di + 1
                   /\ pc' = IF di + 1 = Len(dirs) THEN "summary" ELSE "dirs"
                   /\ UNCHANGED exit_code
    /\ UNCHANGED <<manifest, fs, cwd, ci, fi, runs>>

Summary ==
    /\ pc = "summary"
    /\ out' = out \o <<Blank, Separator("="), Blank,
                       SummaryLine(checked_files, total_files), Blank>>
    /\ pc' = "return"
    /\ UNCHANGED <<manifest, fs, cwd, ci, fi, di, all_passed, total_files,
                   checked_files, calls, exit_code, runs>>

\* if all_passed: ... return 0
ReturnSuccess ==
    /\ pc = "return"
    /\ all_passed
    /\ out' = out \o SuccessBanner
    /\ exit_code' = 0
    /\ runs' = Append(runs, <<out', exit_code'>>)
    /\ pc' = "done"
    /\ UNCHANGED <<manifest, fs, cwd, ci, fi, di, all_passed, total_files,
                   checked_files, calls>>

\* bug: the else branch without return 1: main() returns None, and
\* sys.exit(None) is exit status 0
ReturnFailure_NoReturn ==
    /\ pc = "return"
    /\ ~all_passed
    /\ out' = out \o FailureBanner
    /\ exit_code' = 0
    /\ runs' = Append(runs, <<out', exit_code'>>)
    /\ pc' = "done"
    /\ UNCHANGED <<manifest, fs, cwd, ci, fi, di, all_passed, total_files,
                   checked_files, calls>>

\* else: ... return 1
ReturnFailure ==
    /\ pc = "return"
    /\ ~all_passed
    /\ out' = out \o FailureBanner
    /\ exit_code' = 1
    /\ runs' = Append(runs, <<out', exit_code'>>)
    /\ pc' = "done"
    /\ UNCHANGED <<manifest, fs, cwd, ci, fi, di, all_passed, total_files,
                   checked_files, calls>>

\* sys.exit(main()) ends the process; the script is started again, from any
\* directory, against the same filesystem
NewRun ==
    /\ pc = "done"
    /\ Len(runs) < MaxRuns
    /\ cwd' \in LaunchDirs
    /\ pc' = "start"
    /\ ci' = 0 /\ fi' = 0 /\ di' = 0
    /\ all_passed' = TRUE /\ total_files' = 0 /\ checked_files' = 0
    /\ out' = <<>> /\ calls' = <<>>
    /\ exit_code' = -1
    /\ UNCHANGED <<manifest, fs, runs>>

Next ==
    \/ Start
    \/ NextCategory
    \/ CheckFile
    \/ DirsHeader
    \/ CheckDir
    \/ Summary
    \/ ReturnSuccess
    \/ ReturnFailure
    \/ NewRun

Spec == Init /\ [][Next]_vars

\* the same program text with any of the manifests in place of the declared one
InitManifest ==
    /\ manifest \in DOMAIN Manifests
    /\ fs \in Snapshots(checks, dirs)
    /\ cwd \in LaunchDirs
    /\ runs = <<>>
    /\ Fresh

SpecManifest == InitManifest /\ [][Next]_vars

-----------------------------------------------------------------------------
(* What the properties are stated with.  The filesystem is read directly here,   *)
(* not through os_stat and the predicates.                                        *)

\* every entry with its predicate, in manifest order: files first, then directories
EntriesOf ==
    [m \in DOMAIN Manifests |->
        LET files == FileEntries(Manifests[m].checks)
            ds == Manifests[m].dirs
        IN  [i \in 1..Len(files) |->
                [pred |-> "isfile", path |-> files[i][1], name |-> files[i][2]]]
            \o [i \in 1..Len(ds) |->
                [pred |-> "isdir", path |-> ds[i][1], name |-> ds[i][2]]]]

Entries == EntriesOf[manifest]

Present(e) ==
    IF e.pred = "isfile" THEN fs[e.path] = "file" ELSE fs[e.path] = "dir"

PresentCount == Cardinality({i \in DOMAIN Entries : Present(Entries[i])})

SuccessLineOf(e) ==
    IF e.pred = "isfile" THEN <<"[ok]", e.name>> ELSE <<"[ok]", e.name, "/">>
FailureLineOf(e) ==
    IF e.pred = "isfile" THEN <<"[x]", e.name, "(NOT FOUND)">>
    ELSE <<"[x]", e.name, "/", "(NOT FOUND)">>

IsSuccessLine(l) == l[1] = "[ok]"
IsFailureLine(l) == l[1] = "[x]"
IsResultLine(l) == IsSuccessLine(l) \/ IsFailureLine(l)
IsSummaryLine(l) == l[1] = "summary"

ExpectedCallsOf ==
    [m \in DOMAIN Manifests |->
        [i \in DOMAIN EntriesOf[m] |-> <<EntriesOf[m][i].pred, EntriesOf[m][i].path>>]]

ExpectedCalls == ExpectedCallsOf[manifest]

ResultLines(lines) == SelectSeq(lines, IsResultLine)

Scanned == pc \in {"summary", "return", "done"}

-----------------------------------------------------------------------------
(* Properties *)

\* C1: main() returns 0 exactly when every file entry is a regular file and
\* every directory entry is a directory, and 1 otherwise; it returns nothing
\* else, never ends by an exception, and returns 0 for the empty manifest.
C1_ExitCode ==
    /\ exit_code \in {-1, 0, 1}
    /\ pc # "raised"
    /\ pc = "done" =>
          /\ exit_code \in {0, 1}
          /\ exit_code = 0 <=> \A i \in DOMAIN Entries : Present(Entries[i])
          /\ Len(Entries) = 0 => exit_code = 0
    /\ pc # "done" => exit_code = -1

C1_Witness ==
    /\ pc = "done"
    /\ manifest = "empty"
    /\ exit_code = 0
    /\ Len(runs) = 1

\* C2: at the summary total_files is the number of declared entries whatever is
\* present: 5 + 10 + 11 + 3 + 2 = 31 files and 5 directories, 36.
C2_TotalIsDeclared ==
    Scanned =>
        /\ total_files = Len(Entries)
        /\ total_files = 36
        /\ [c \in 1..Len(checks) |-> Len(checks[c][2])] = <<5, 10, 11, 3, 2>>
        /\ Len(dirs) = 5

C2_Witness ==
    /\ pc = "summary"
    /\ total_files = 36
    /\ checked_files = 0

\* C3: at the end of a run checked_files is the number of entries present with
\* the declared kind, and all_passed holds exactly when checked_files = total_files.
C3_PassedCount ==
    Scanned =>
        /\ checked_files = PresentCount
        /\ all_passed <=> checked_files = total_files

C3_Witness ==
    /\ pc = "done"
    /\ checked_files = 32
    /\ ~all_passed
    /\ fs[<<"backend", "cmd">>] = "other"

\* C4: the predicates are called in manifest order, one call per entry, files
\* of all categories before the directories; a failed check does not end the
\* scan, and the summary is printed only after the last check.
C4_ManifestOrder ==
    /\ Len(calls) <= Len(ExpectedCalls)
    /\ calls = SubSeq(ExpectedCalls, 1, Len(calls))
    /\ Scanned => calls = ExpectedCalls
    /\ (\E i \in DOMAIN out : IsSummaryLine(out[i])) => calls = ExpectedCalls
    /\ pc \in {"start", "categories", "files", "dirs"}
          => ~ \E i \in DOMAIN out : IsSummaryLine(out[i])

C4_Witness ==
    /\ pc = "summary"
    /\ fs[<<"README.md">>] = "absent"
    /\ fs[<<"infrastructure">>] = "dir"
    /\ Len(calls) = 36


\* C5: check_file answers true exactly for a path that is a regular file and
\* check_dir exactly for a path that is a directory, whatever else the path is
\* (a directory or a file of the other kind, another node, nothing); and every
\* check a run has made printed the line of that answer.  (The snapshot never
\* changes, so the answers for all paths are compared once, as a run starts.)
C5_Predicates ==
    /\ pc # "start" => cwd = "root"
    /\ pc = "start" => \A i \in DOMAIN Entries :
          LET e == Entries[i]
              f == check_file("root", e.path, e.name)
              d == check_dir("root", e.path, e.name)
          IN  /\ f.val = (fs[e.path] = "file")
              /\ d.val = (fs[e.path] = "dir")
              /\ f.exc = "None"
              /\ d.exc = "None"
    /\ LET rl == ResultLines(out)
       IN  /\ Len(rl) = Len(calls)
           /\ \A i \in 1..Len(calls) : IsSuccessLine(rl[i]) <=> Present(Entries[i])

C5_Witness ==
    /\ pc = "done"
    /\ fs[<<"infrastructure">>] = "file"
    /\ \E i \in DOMAIN Entries :
          /\ Entries[i].path = <<"infrastructure">>
          /\ ResultLines(out)[i] = <<"[x]", "Infrastructure", "/", "(NOT FOUND)">>

\* C6: every run against the same snapshot prints the same lines and returns
\* the same exit code, from whatever directory it is started.
C6_SameRuns ==
    /\ \A i, j \in DOMAIN runs : runs[i] = runs[j]
    /\ pc = "done" => runs[Len(runs)] = <<out, exit_code>>

C6_Witness ==
    /\ Len(runs) = 2
    /\ pc = "done"
    /\ runs[2][2] = 1
    /\ fs[<<"setup.sh">>] = "dir"

\* C7: a declared path stat fails on is reported like a missing one: the check
\* answers false and prints the failure line of the entry, no exception leaves
\* check_file, check_dir or main(), the remaining entries are checked, and the
\* run returns 1.
C7_Unstatable ==
    /\ pc # "raised"
    /\ pc = "start" => \A i \in DOMAIN Entries :
          LET e == Entries[i]
          IN  fs[e.path] = "unstatable" =>
                /\ check_file("root", e.path, e.name)
                     = [exc |-> "None", val |-> FALSE,
                        printed |-> << <<"[x]", e.name, "(NOT FOUND)">> >>]
                /\ check_dir("root", e.path, e.name)
                     = [exc |-> "None", val |-> FALSE,
                        printed |-> << <<"[x]", e.name, "/", "(NOT FOUND)">> >>]
    /\ LET rl == ResultLines(out)
       IN  \A i \in 1..Len(calls) :
              fs[Entries[i].path] = "unstatable" =>
                  /\ i <= Len(rl)
                  /\ rl[i] = FailureLineOf(Entries[i])
    /\ (pc = "done" /\ \E i \in DOMAIN Entries : fs[Entries[i].path] = "unstatable")
          => /\ exit_code = 1
             /\ calls = ExpectedCalls
             /\ total_files = Len(Entries)

C7_Witness ==
    /\ pc = "done"
    /\ fs[<<"backend", "cmd">>] = "unstatable"
    /\ fs[<<"backend", "cmd", "api", "main.go">>] = "unstatable"
    /\ exit_code = 1
    /\ Len(calls) = 36

\* C8: a run prints one result line per entry, the success line of an entry
\* found and the failure line, with the entry's name, of an entry missing; the
\* success lines number checked_files, the failure lines total_files less
\* checked_files, and the one summary line shows checked_files/total_files.
C8_ResultLines ==
    LET rl == ResultLines(out)
        ok == Len(SelectSeq(rl, IsSuccessLine))
        bad == Len(SelectSeq(rl, IsFailureLine))
        sums == SelectSeq(out, IsSummaryLine)
    IN  /\ Len(rl) = Len(calls)
        /\ \A i \in 1..Len(rl) :
              rl[i] = IF Present(Entries[i]) THEN SuccessLineOf(Entries[i])
                      ELSE FailureLineOf(Entries[i])
        /\ ok = checked_files
        /\ bad = total_files - checked_files
        /\ Scanned => Len(rl) = Len(Entries)
        /\ pc \in {"return", "done"} =>
              sums = << <<"summary", ok, "/", ok + bad, "items verified">> >>
        /\ pc \notin {"return", "done"} => sums = <<>>

C8_Witness ==
    /\ manifest = "three"
    /\ pc = "done"
    /\ Len(SelectSeq(out, IsSuccessLine)) = 2
    /\ Len(SelectSeq(out, IsFailureLine)) = 1
    /\ \E i \in DOMAIN out : out[i] = <<"summary", 2, "/", 3, "items verified">>
    /\ exit_code = 1

\* C9: no step changes the snapshot (no path is created, deleted or changes
\* kind); the working directory changes only when main() starts, to the
\* script's directory (a new process starts in its own launch directory).
C9_Frame ==
    [][/\ fs' = fs
       /\ manifest' = manifest
       /\ cwd' # cwd => \/ pc = "start" /\ cwd' = "root"
                        \/ pc = "done" /\ pc' = "start"]_vars

C9_Witness ==
    /\ pc = "done"
    /\ Len(runs) = 2
    /\ cwd = "root"
    /\ \E p \in DOMAIN fs : fs[p] = "absent"
    /\ \E p \in DOMAIN fs : fs[p] = "dir"

\* C10: in every state of the scan 0 <= checked_files <= total_files <= 36 and
\* all_passed holds exactly when checked_files = total_files; within a run
\* all_passed, once false, stays false.
C10_Counters ==
    /\ [](/\ 0 <= checked_files
          /\ checked_files <= total_files
          /\ total_files <= 36
          /\ total_files = Len(calls)
          /\ all_passed <=> checked_files = total_files)
    /\ [][(~all_passed /\ pc # "done") => ~all_passed']_vars

C10_Witness ==
    /\ pc = "dirs"
    /\ ~all_passed
    /\ fs[<<"README.md">>] = "absent"
    /\ checked_files = 32
    /\ total_files = 33

====
